---- MODULE Spec2Model ----
(***************************************************************************)
(* NoodlesClient (examples/external-control/create_pipeline.py): a         *)
(* blocking WebSocket client that tags every outbound message with a       *)
(* fresh identifier and scans inbound frames for the reply that carries    *)
(* the same identifier.                                                    *)
(*                                                                         *)
(* The client is single-threaded.  Operations that do not block (connect,  *)
(* disconnect, send_message) are one action each.  An operation that       *)
(* awaits a reply is one action up to the point where it blocks in         *)
(* ws.recv(), and then one `recv` action per frame the socket returns;     *)
(* that action runs the rest of the loop body, the loop test and, when     *)
(* the loop ends, the rest of the calling operation.  The server, the      *)
(* network and the clock are the environment: server_send, server_drop     *)
(* and tick.  A frame sits in inbox from the moment the server sends it    *)
(* until ws.recv() returns it.                                             *)
(***************************************************************************)
EXTENDS Integers, Sequences, FiniteSets, TLC

\* ---------------------------------------------------------------- bounds
MaxConn == 2        \* channels create_connection may open in one run
MaxMsgs == 3        \* send_message calls in one run
MaxTime == 2        \* clock ticks in one run
MaxInbox == 1       \* frames in flight on the channel
MaxFrames == 2      \* frames one wait_for_response reads
Timeout == 1        \* wait_for_response's timeout (30 s), in clock ticks

\* -------------------------------------------------------------- constants
None == 0           \* self.ws = None; channels are 1..MaxConn
NoId == <<>>        \* data.get("id") of a message that has no id field
NoValue == <<>>     \* nothing returned

Chan == 1..MaxConn

VARIABLES
    ws,             \* self.ws: None or the channel held
    message_id,     \* self.message_id
    now,            \* time.time()
    nconn,          \* channels opened so far
    status,         \* per channel: "unused", "open", "dropped" (by the peer), "closed" (by the client)
    inbox,          \* frames the server sent on channel ws that ws.recv() has not returned yet
    wire,           \* every frame ws.send() transmitted, in order: [ch, op, frame]
    pc,             \* "idle", or "recv": inside wait_for_response, blocked in ws.recv()
    awaited,        \* wait_for_response's message_id argument
    start_time,     \* wait_for_response's start_time
    received,       \* number of frames ws.recv() returned to the current (or last) wait
    reply,          \* the last of them and the time ws.recv() returned it: <<>> or <<[frame, at]>>
    ret,            \* the current (pending) or last finished operation and its outcome
    closes,         \* per channel: number of ws.close() calls
    lost            \* history: ids of the replies ws.recv() handed to a wait for another id, not sent again since

vars == <<lost, ws, message_id, now, nconn, status, inbox, wire, pc, awaited,
          start_time, received, reply, ret, closes>>

\* ---------------------------------------------------------------- outcomes
Pending(o) ==
    [op |-> o, outcome |-> "pending", exc |-> "", text |-> <<>>, value |-> NoValue]
Returned(o, v) ==
    [op |-> o, outcome |-> "returned", exc |-> "", text |-> <<>>, value |-> v]
Raised(o, e, t) ==
    [op |-> o, outcome |-> "raised", exc |-> e, text |-> t, value |-> NoValue]

\* ---------------------------------------------------------------- messages
\* f"py-{self.message_id}-{time.time()}"
MessageId(n, t) == <<"py", n, t>>

\* the message dict built by send_message
Message(n, t, msg_type, payload) ==
    [id |-> MessageId(n, t), type |-> msg_type, timestamp |-> t * 1000,
     payload |-> payload]

\* json.dumps / json.loads: a frame is text that either is the JSON of an
\* object or is not JSON at all
Dumps(obj) == [json |-> TRUE, obj |-> obj]
Garbage == [json |-> FALSE, obj |-> [raw |-> "not json"]]
\* variant of the parse: every frame is taken for JSON
IsJsonAlways(frame) == TRUE

IsJson(frame) == frame.json
Loads(frame) == frame.obj

\* dict.get(key), None when the key is absent
Get(data, key) == IF key \in DOMAIN data THEN data[key] ELSE NoId

\* variant of the counter step: no increment
same_message_id(n) == n

\* self.message_id += 1
next_message_id(n) == n + 1

\* variants of the id test: any message that has an id; the id without its
\* timestamp
MatchesAnyId(data, id) == "id" \in DOMAIN data
MatchesCounterOnly(data, id) == Get(data, "id") = <<id[1], id[2]>>

\* data.get("id") == message_id
Matches(data, id) == Get(data, "id") = id

\* variant of the loop test: the deadline is a fixed time
WithinTimeoutAbsolute(t, start, timeout) == t < timeout

\* time.time() - start_time < timeout
WithinTimeout(t, start, timeout) == t - start < timeout

\* variant of the error test: another type tag
IsErrorReplyTag(response) == response.type = "error"

\* response["type"] == "tool_error"
IsErrorReply(response) == response.type = "tool_error"

\* the text each operation puts before the remote message
ErrorPrefix(o) ==
    CASE o = "call_tool" -> "Tool error: "
      [] o = "create_pipeline" -> "Pipeline creation failed: "
      [] o = "test_pipeline" -> "Pipeline test failed: "

\* the part of call_tool, create_pipeline and test_pipeline after
\* wait_for_response has returned `response`
Unwrap(o, response) ==
    IF IsErrorReply(response)
    THEN IF "error" \in DOMAIN response.payload
         THEN Raised(o, "Exception",
                     <<ErrorPrefix(o), response.payload.error.message>>)
         ELSE Raised(o, "KeyError", <<"error">>)
    ELSE IF "result" \in DOMAIN response.payload
         THEN Returned(o, response.payload.result)
         ELSE Raised(o, "KeyError", <<"result">>)

\* what the caller of wait_for_response does with the matching message
Finish(o, data) ==
    IF o = "wait_for_response" THEN Returned(o, data) ELSE Unwrap(o, data)

\* payloads of the outbound messages
ConnectPayload == [version |-> "1.0.0", capabilities |-> <<"pipeline", "tools", "state">>]
ToolPayload(tool) == [tool |-> tool, args |-> <<>>]
PipelineCreatePayload == [spec |-> "spec", options |-> <<"validateFirst", "autoConnect">>]
PipelineTestPayload == [pipelineId |-> "p", testData |-> <<>>]
Tools == {"getCurrentProject"}

\* ---------------------------------------------------------------- helpers
Last(s) == s[Len(s)]
SentOn(c) == SelectSeq(wire, LAMBDA e : e.ch = c)
IdOf(e) == Loads(e.frame).id
SentIds == {IdOf(wire[i]) : i \in DOMAIN wire}
\* the ids of the requests: every message but the handshake
RequestIds == {IdOf(wire[i]) : i \in {j \in DOMAIN wire : wire[j].op # "connect"}}
\* the ids send_message returned to the caller of the client
ReturnedIds == {IdOf(wire[i]) : i \in {j \in DOMAIN wire : wire[j].op = "send_message"}}

\* ws.send() succeeds on an open channel only
CanSend(w) == w # None /\ status[w] = "open"
SendFailure(w) ==
    IF w = None THEN "AttributeError" ELSE "WebSocketConnectionClosedException"

\* variant of send_message: the frame is transmitted twice
send_twice(o, w, ok, msg_type, payload) ==
    /\ message_id' = next_message_id(message_id)
    /\ wire' = IF ok
               THEN LET e == [ch |-> w, op |-> o,
                              frame |-> Dumps(Message(message_id', now, msg_type, payload))]
                    IN  wire \o <<e, e>>
               ELSE wire

\* send_message called by operation o on channel w; `ok` says whether
\* ws.send() succeeds
send(o, w, ok, msg_type, payload) ==
    /\ message_id' = next_message_id(message_id)
    /\ wire' = IF ok
               THEN Append(wire, [ch |-> w, op |-> o,
                                  frame |-> Dumps(Message(message_id', now, msg_type, payload))])
               ELSE wire

\* ------------------------------------------------------------------- Init
Init ==
    /\ ws = None
    /\ message_id = 0
    /\ now = 0
    /\ nconn = 0
    /\ status = [c \in Chan |-> "unused"]
    /\ inbox = <<>>
    /\ wire = <<>>
    /\ pc = "idle"
    /\ awaited = NoId
    /\ start_time = 0
    /\ received = 0
    /\ reply = <<>>
    /\ ret = Returned("__init__", NoValue)
    /\ closes = [c \in Chan |-> 0]
    /\ lost = {}

\* ---------------------------------------------------------------- connect
\* the locals of wait_for_response are gone once another operation runs
no_wait ==
    /\ awaited' = NoId
    /\ start_time' = 0
    /\ received' = 0
    /\ reply' = <<>>

\* variant of the failing connect: the counter is advanced before the
\* connection is attempted
connect_unreachable_counted ==
    /\ pc = "idle"
    /\ message_id < MaxMsgs
    /\ message_id' = next_message_id(message_id)
    /\ ret' = Raised("connect", "ConnectionRefusedError", <<>>)
    /\ no_wait
    /\ UNCHANGED <<lost, ws, now, nconn, status, inbox, wire, pc, closes>>

\* websocket.create_connection raises: the endpoint is unreachable
connect_unreachable ==
    /\ pc = "idle"
    /\ ret' = Raised("connect", "ConnectionRefusedError", <<>>)
    /\ no_wait
    /\ UNCHANGED <<lost, ws, message_id, now, nconn, status, inbox, wire, pc, closes>>

\* variant of the successful connect: no handshake
connect_ok_silent ==
    /\ pc = "idle"
    /\ nconn < MaxConn
    /\ nconn' = nconn + 1
    /\ ws' = nconn'
    /\ status' = [status EXCEPT ![nconn'] = "open"]
    /\ inbox' = <<>>
    /\ ret' = Returned("connect", NoValue)
    /\ no_wait
    /\ UNCHANGED <<lost, message_id, wire, now, pc, closes>>

\* the channel opens and the handshake is sent
connect_ok ==
    /\ pc = "idle"
    /\ nconn < MaxConn
    /\ message_id < MaxMsgs
    /\ nconn' = nconn + 1
    /\ ws' = nconn'
    /\ status' = [status EXCEPT ![nconn'] = "open"]
    /\ inbox' = <<>>
    /\ send("connect", nconn', TRUE, "connect", ConnectPayload)
    /\ ret' = Returned("connect", NoValue)
    /\ no_wait
    /\ UNCHANGED <<lost, now, pc, closes>>

\* the channel opens and is lost before the handshake: ws.send() raises
connect_lost ==
    /\ pc = "idle"
    /\ nconn < MaxConn
    /\ message_id < MaxMsgs
    /\ nconn' = nconn + 1
    /\ ws' = nconn'
    /\ status' = [status EXCEPT ![nconn'] = "dropped"]
    /\ inbox' = <<>>
    /\ send("connect", nconn', FALSE, "connect", ConnectPayload)
    /\ ret' = Raised("connect", SendFailure(nconn'), <<>>)
    /\ no_wait
    /\ UNCHANGED <<lost, now, pc, closes>>

connect == connect_unreachable \/ connect_ok \/ connect_lost

\* variant of disconnect: the closed channel is kept
disconnect_ws_kept == ws

\* self.ws after ws.close()
disconnect_ws == None

disconnect ==
    /\ pc = "idle"
    /\ IF ws # None
       THEN /\ status' = [status EXCEPT ![ws] = "closed"]
            /\ closes' = [closes EXCEPT ![ws] = @ + 1]
            /\ ws' = disconnect_ws
            /\ inbox' = <<>>
       ELSE UNCHANGED <<status, closes, ws, inbox>>
    /\ ret' = Returned("disconnect", NoValue)
    /\ no_wait
    /\ UNCHANGED <<lost, message_id, now, nconn, wire, pc>>

\* ------------------------------------------------------------ send_message
send_message(msg_type) ==
    /\ pc = "idle"
    /\ message_id < MaxMsgs
    /\ send("send_message", ws, CanSend(ws), msg_type, ToolPayload("getCurrentProject"))
    /\ ret' = IF CanSend(ws)
              THEN Returned("send_message", MessageId(message_id', now))
              ELSE Raised("send_message", SendFailure(ws), <<>>)
    /\ no_wait
    /\ UNCHANGED <<lost, ws, now, nconn, status, inbox, pc, closes>>

\* ------------------------------------------------------- wait_for_response
\* wait_for_response up to its first ws.recv()
start_wait(o, id) ==
    /\ awaited' = id
    /\ start_time' = now
    /\ received' = 0
    /\ reply' = <<>>
    /\ IF WithinTimeout(now, now, Timeout)
       THEN pc' = "recv" /\ ret' = Pending(o)
       ELSE pc' = "idle" /\ ret' = Raised(o, "TimeoutError", <<>>)

wait_for_response(id) ==
    /\ pc = "idle"
    /\ start_wait("wait_for_response", id)
    /\ UNCHANGED <<lost, ws, message_id, now, nconn, status, inbox, wire, closes>>

\* send_message followed by wait_for_response, as call_tool, create_pipeline
\* and test_pipeline do
do_request(o, msg_type, payload) ==
    /\ pc = "idle"
    /\ send(o, ws, CanSend(ws), msg_type, payload)
    /\ IF CanSend(ws)
       THEN start_wait(o, MessageId(message_id', now))
       ELSE /\ ret' = Raised(o, SendFailure(ws), <<>>)
            /\ no_wait
            /\ UNCHANGED pc
    /\ UNCHANGED <<lost, ws, now, nconn, status, inbox, closes>>

\* ... within the bound on the messages of one run
request(o, msg_type, payload) ==
    /\ message_id < MaxMsgs
    /\ do_request(o, msg_type, payload)

call_tool(tool) == request("call_tool", "tool_call", ToolPayload(tool))
create_pipeline == request("create_pipeline", "pipeline_create", PipelineCreatePayload)
test_pipeline == request("test_pipeline", "pipeline_test", PipelineTestPayload)

\* the ids of the messages queued in q
QueuedIds(q) == {Get(Loads(q[i]), "id") : i \in {j \in DOMAIN q : IsJson(q[j])}}

\* ws.recv() on a client that holds no channel
recv_no_channel ==
    /\ pc = "recv"
    /\ ws = None
    /\ pc' = "idle"
    /\ ret' = Raised(ret.op, "AttributeError", <<>>)
    /\ UNCHANGED <<lost, ws, message_id, now, nconn, status, inbox, wire, awaited,
                   start_time, received, reply, closes>>

\* variant of recv_frame: a wait that times out gives the channel up
recv_frame_closing ==
    /\ pc = "recv"
    /\ ws # None
    /\ inbox # <<>>
    /\ LET frame == Head(inbox) IN
       /\ inbox' = Tail(inbox)
       /\ received' = received + 1
       /\ reply' = <<[frame |-> frame, at |-> now]>>
       /\ IF ~IsJson(frame)
          THEN pc' = "idle" /\ ret' = Raised(ret.op, "JSONDecodeError", <<>>)
          ELSE IF Matches(Loads(frame), awaited)
          THEN pc' = "idle" /\ ret' = Finish(ret.op, Loads(frame))
          ELSE IF WithinTimeout(now, start_time, Timeout)
          THEN pc' = "recv" /\ ret' = ret
          ELSE pc' = "idle" /\ ret' = Raised(ret.op, "TimeoutError", <<>>)
       /\ lost' = IF IsJson(frame) /\ ~Matches(Loads(frame), awaited)
                  THEN (lost \cup ({Get(Loads(frame), "id")} \cap SentIds))
                       \ QueuedIds(Tail(inbox))
                  ELSE lost
    /\ IF /\ IsJson(Head(inbox))
          /\ ~Matches(Loads(Head(inbox)), awaited)
          /\ ~WithinTimeout(now, start_time, Timeout)
       THEN ws' = None /\ status' = [status EXCEPT ![ws] = "closed"]
       ELSE UNCHANGED <<ws, status>>
    /\ UNCHANGED <<message_id, now, nconn, wire, awaited, start_time, closes>>

\* ws.recv() returns a frame: the loop body, the loop test, and the caller
recv_frame ==
    /\ pc = "recv"
    /\ ws # None
    /\ inbox # <<>>
    /\ LET frame == Head(inbox) IN
       /\ inbox' = Tail(inbox)
       /\ received' = received + 1
       /\ reply' = <<[frame |-> frame, at |-> now]>>
       /\ IF ~IsJson(frame)
          THEN pc' = "idle" /\ ret' = Raised(ret.op, "JSONDecodeError", <<>>)
          ELSE IF Matches(Loads(frame), awaited)
          THEN pc' = "idle" /\ ret' = Finish(ret.op, Loads(frame))
          ELSE IF WithinTimeout(now, start_time, Timeout)
          THEN pc' = "recv" /\ ret' = ret
          ELSE pc' = "idle" /\ ret' = Raised(ret.op, "TimeoutError", <<>>)
       /\ lost' = IF IsJson(frame) /\ ~Matches(Loads(frame), awaited)
                  THEN (lost \cup ({Get(Loads(frame), "id")} \cap SentIds))
                       \ QueuedIds(Tail(inbox))
                  ELSE lost
    /\ UNCHANGED <<ws, message_id, now, nconn, status, wire, awaited, start_time,
                   closes>>

\* ws.recv() on a channel the peer has dropped, nothing left to read
recv_closed ==
    /\ pc = "recv"
    /\ ws # None
    /\ inbox = <<>>
    /\ status[ws] = "dropped"
    /\ pc' = "idle"
    /\ ret' = Raised(ret.op, "WebSocketConnectionClosedException", <<>>)
    /\ UNCHANGED <<lost, ws, message_id, now, nconn, status, inbox, wire, awaited,
                   start_time, received, reply, closes>>

\* ws.recv() has no fourth outcome: create_connection is called without a
\* timeout and no default timeout is set, so the socket blocks and
\* WebSocketTimeoutException is never raised.  With nothing to read on an open
\* channel the client stays at pc = "recv".
recv == recv_no_channel \/ recv_frame \/ recv_closed

\* ------------------------------------------------------------- environment
PResult == [result |-> "R"]
PError == [error |-> [message |-> "X"]]
ForeignId == <<"srv", 0, 0>>

Reply(i, t) ==
    Dumps([id |-> i, type |-> t,
           payload |-> IF t = "tool_result" THEN PResult ELSE PError])

\* what a server may put on the wire: a result or an error reply to any
\* request sent so far, a message with an id no request carries, a push
\* without id, and a frame that is not JSON
ServerFrames ==
    {Reply(i, t) : i \in RequestIds, t \in {"tool_result", "tool_error", "pipeline_error"}}
    \cup {Reply(ForeignId, "tool_result")}
    \cup {Dumps([type |-> "state_change", payload |-> PResult])}
    \cup {Garbage}

\* the server sends a frame on the channel the client holds (frames on a
\* channel the client has closed or replaced can never be read)
server_send(frame) ==
    /\ CanSend(ws)
    /\ Len(inbox) < MaxInbox
    /\ pc = "recv" => received + Len(inbox) < MaxFrames
    /\ inbox' = Append(inbox, frame)
    /\ lost' = lost \ QueuedIds(<<frame>>)
    /\ UNCHANGED <<ws, message_id, now, nconn, status, wire, pc, awaited,
                   start_time, received, reply, ret, closes>>

\* the server (or the network) drops the channel the client holds
server_drop ==
    /\ CanSend(ws)
    /\ status' = [status EXCEPT ![ws] = "dropped"]
    /\ UNCHANGED <<lost, ws, message_id, now, nconn, inbox, wire, pc, awaited,
                   start_time, received, reply, ret, closes>>

tick ==
    /\ now < MaxTime
    /\ now' = now + 1
    /\ UNCHANGED <<lost, ws, message_id, nconn, status, inbox, wire, pc, awaited,
                   start_time, received, reply, ret, closes>>

\* ------------------------------------------------------------------- Next
Next ==
    \/ connect
    \/ disconnect
    \/ \E t \in {"tool_call"} : send_message(t)
    \/ \E id \in ReturnedIds : wait_for_response(id)
    \/ \E tool \in Tools : call_tool(tool)
    \/ create_pipeline
    \/ test_pipeline
    \/ recv
    \/ \E f \in ServerFrames : server_send(f)
    \/ server_drop
    \/ tick

Spec == Init /\ [][Next]_vars

\* ------------------------------------------------------------------- main
\* main(): connect, create_pipeline, capture_visualization,
\* get_current_project and test_pipeline in a try block, `except Exception`
\* around it and disconnect in the finally block.  Where main stands follows
\* from the outcome of the operation it ran last and from the last message it
\* sent.
CapturePayload ==
    [tool |-> "captureVisualization", args |-> [format |-> "png", quality |-> "0.9"]]
capture_visualization == do_request("call_tool", "tool_call", CapturePayload)
\* variant of get_current_project: another tool name
get_project == do_request("call_tool", "tool_call", ToolPayload("getProject"))

get_current_project ==
    do_request("call_tool", "tool_call", ToolPayload("getCurrentProject"))

\* the exceptions `except Exception` catches: every class but those derived
\* from BaseException alone
CaughtByExcept ==
    {"ConnectionRefusedError", "AttributeError", "WebSocketConnectionClosedException",
     "TimeoutError", "JSONDecodeError", "Exception", "KeyError"}

\* variant of the handler: main returns from the except block, disconnect
\* is part of the try block
after_failure_exit == "done"

\* where main goes when a step has raised: the except block, then finally
after_failure == "finally"

LastTool == Loads(Last(wire).frame).payload.tool

MainPc ==
    CASE ret.op = "__init__" -> "connect"
      [] ret.op = "disconnect" -> "done"
      [] ret.outcome = "pending" -> "wait"
      [] ret.outcome = "raised" -> after_failure
      [] ret.op = "connect" -> "create_pipeline"
      [] ret.op = "create_pipeline" -> "capture_visualization"
      [] ret.op = "call_tool" /\ LastTool = "captureVisualization" -> "get_current_project"
      [] ret.op = "call_tool" -> "test_pipeline"
      [] OTHER -> "finally"

main_connect == MainPc = "connect" /\ connect
main_create_pipeline ==
    /\ MainPc = "create_pipeline"
    /\ do_request("create_pipeline", "pipeline_create", PipelineCreatePayload)
main_capture_visualization ==
    MainPc = "capture_visualization" /\ capture_visualization
main_get_current_project ==
    MainPc = "get_current_project" /\ get_current_project
main_test_pipeline ==
    /\ MainPc = "test_pipeline"
    /\ do_request("test_pipeline", "pipeline_test", PipelineTestPayload)

\* pipeline['pipelineId'], screenshot.get('data', ''), project['nodes'],
\* test_result['success']: the result the server sent lacks what main reads
main_result_unusable ==
    /\ ret.op \in {"create_pipeline", "call_tool", "test_pipeline"}
    /\ ret.outcome = "returned"
    /\ ret' = Raised("main", "KeyError", <<>>)
    /\ UNCHANGED <<lost, ws, message_id, now, nconn, status, inbox, wire, pc, awaited,
                   start_time, received, reply, closes>>

main_disconnect == MainPc = "finally" /\ disconnect

\* results a server may send besides PResult
ProjectResult == "{nodes: [], edges: []}"
MainFrames ==
    ServerFrames \cup
    {Dumps([id |-> i, type |-> "tool_result", payload |-> [result |-> ProjectResult]]) :
        i \in RequestIds}

MainNext ==
    \/ main_connect
    \/ main_create_pipeline
    \/ main_capture_visualization
    \/ main_get_current_project
    \/ main_test_pipeline
    \/ main_result_unusable
    \/ main_disconnect
    \/ recv_frame
    \/ recv_closed
    \/ \E f \in MainFrames : server_send(f)
    \/ server_drop
    \/ tick

MainSpec == Init /\ [][MainNext]_vars

\* ============================================================== properties
CallOps == {"call_tool", "create_pipeline", "test_pipeline"}
WaitOps == CallOps \cup {"wait_for_response"}
\* type tags that end in _error
ErrorTypes == {"tool_error", "pipeline_error"}

\* the current or last operation entered wait_for_response
InWait == ret.op \in WaitOps /\ awaited # NoId
\* ... and has left it
WaitOver == InWait /\ ret.outcome # "pending"
\* the last frame ws.recv() returned to it is a message carrying the awaited id
GotMatch ==
    /\ reply # <<>>
    /\ IsJson(reply[1].frame)
    /\ Get(Loads(reply[1].frame), "id") = awaited
\* the last frame ws.recv() returned to it is a message carrying another id
GotDecoy ==
    /\ reply # <<>>
    /\ IsJson(reply[1].frame)
    /\ "id" \in DOMAIN Loads(reply[1].frame)
    /\ Loads(reply[1].frame).id # awaited
\* that frame was returned before the timeout had elapsed
InTime == reply # <<>> /\ reply[1].at - start_time < Timeout
Data == Loads(reply[1].frame)
\* the operation ended in the code that follows wait_for_response
Unwrapped == ret.outcome = "returned" \/ ret.exc \in {"Exception", "KeyError"}

\* C1 (correlation safety): wait_for_response returns only a message whose
\* id is the id it was asked to await, and a result or remote error that
\* call_tool, create_pipeline or test_pipeline hands to its caller comes from
\* a reply whose id is the id of the one message that same call transmitted.
C1_CorrelationSafety ==
    /\ (ret.op = "wait_for_response" /\ ret.outcome = "returned") =>
            /\ GotMatch
            /\ ret.value = Data
    /\ (ret.op \in CallOps /\ Unwrapped) =>
            /\ GotMatch
            /\ wire # <<>>
            /\ Last(wire).op = ret.op
            /\ IdOf(Last(wire)) = Data.id
            /\ Cardinality({i \in DOMAIN wire : IdOf(wire[i]) = Data.id}) = 1
            /\ ret.outcome = "returned" => ret.value = Data.payload.result

\* a call returned its result after the wait had discarded another message
C1_Witness ==
    /\ ret.op \in CallOps
    /\ ret.outcome = "returned"
    /\ received >= 2
    /\ message_id >= 3

\* C2 (decoy tolerance): a message with another id that arrives before the
\* timeout does not end the wait (the wait goes on, unless the channel is
\* lost), and a message with the awaited id that arrives before the timeout,
\* after any number of such messages, is what the wait returns, without
\* raising.
C2_DecoyTolerance ==
    /\ (InWait /\ GotDecoy /\ InTime) =>
            \/ ret.outcome = "pending" /\ pc = "recv"
            \/ ret.exc = "WebSocketConnectionClosedException"
    /\ (InWait /\ GotMatch /\ InTime) =>
            /\ pc = "idle"
            /\ ret = Finish(ret.op, Data)
            /\ ret.op = "wait_for_response" => ret.outcome = "returned" /\ ret.value = Data

\* wait_for_response returned the awaited message after a decoy
C2_Witness ==
    /\ ret.op = "wait_for_response"
    /\ ret.outcome = "returned"
    /\ GotMatch /\ InTime
    /\ received = MaxFrames

\* C3 (timeout property): once the timeout has elapsed and no message with
\* the awaited id arrived within it, the wait has failed with TimeoutError and
\* has returned nothing.
C3_TimeoutProperty ==
    (InWait /\ now - start_time > Timeout /\ ~(GotMatch /\ InTime)) =>
        /\ ret.outcome = "raised"
        /\ ret.exc = "TimeoutError"

\* C4 (bounded blocking): the wait never blocks past the timeout.
C4_BoundedBlocking ==
    pc = "recv" => now - start_time <= Timeout

C6_ErrorSuffix ==
    (ret.op \in CallOps /\ WaitOver /\ GotMatch
        /\ Data.type \in ErrorTypes /\ "error" \in DOMAIN Data.payload) =>
        /\ ret.outcome = "raised"
        /\ \E i \in DOMAIN ret.text : ret.text[i] = Data.payload.error.message

\* C7 (idempotent disconnect): disconnect never raises and leaves the client
\* without a channel; no channel is closed more than once; and a disconnect
\* on a client that holds no channel changes nothing.
C7_IdempotentDisconnect ==
    /\ [](/\ ret.op = "disconnect" => ret.outcome = "returned" /\ ws = None
          /\ \A c \in Chan : closes[c] <= 1)
    /\ [][(ret'.op = "disconnect" /\ ws = None) =>
              /\ ret'.outcome = "returned"
              /\ UNCHANGED <<ws, status, closes, message_id, wire, nconn, inbox>>]_vars

\* disconnect ran on a client that was never connected
C7_Witness ==
    /\ ret.op = "disconnect"
    /\ ret.outcome = "returned"
    /\ ws = None
    /\ nconn = 0
    /\ \A c \in Chan : closes[c] = 0

\* the counter part of the id of the i-th transmitted message
CounterOf(i) == IdOf(wire[i])[2]

\* C8 (fresh identifiers): the counter never decreases and a step that
\* transmits a message raises it by exactly one and puts it into the id of
\* that message; the ids of all transmitted messages are pairwise distinct;
\* send_message returns the id it transmitted.
C8_FreshIdentifiers ==
    /\ [](/\ \A i, j \in DOMAIN wire : i < j =>
                /\ IdOf(wire[i]) # IdOf(wire[j])
                /\ CounterOf(i) < CounterOf(j)
          /\ \A i \in DOMAIN wire : CounterOf(i) <= message_id
          /\ (ret.op = "send_message" /\ ret.outcome = "returned") =>
                wire # <<>> /\ ret.value = IdOf(Last(wire)))
    /\ [][/\ message_id' \in {message_id, message_id + 1}
          /\ wire' # wire =>
                /\ message_id' = message_id + 1
                /\ Len(wire') = Len(wire) + 1
                /\ IdOf(Last(wire')) = MessageId(message_id', now)]_vars

\* send_message returned an id on a second connection, after a disconnect
C8_Witness ==
    /\ ret.op = "send_message"
    /\ ret.outcome = "returned"
    /\ nconn = 2
    /\ closes[1] = 1
    /\ message_id = 3

\* C9 (handshake ordering): the first message transmitted on a channel is
\* the connect handshake, and when connect returns the handshake is the one
\* message transmitted on the new channel, with no frame read from it.
C9_HandshakeFirst ==
    /\ \A c \in Chan : SentOn(c) # <<>> =>
            /\ SentOn(c)[1].op = "connect"
            /\ Loads(SentOn(c)[1].frame).type = "connect"
    /\ (ret.op = "connect" /\ ret.outcome = "returned") =>
            /\ ws # None
            /\ status[ws] # "unused"
            /\ Len(SentOn(ws)) = 1
            /\ Loads(SentOn(ws)[1].frame).type = "connect"
            /\ pc = "idle"
            /\ received = 0 /\ reply = <<>>

\* a request was transmitted on a channel, after the handshake
C9_Witness ==
    \E c \in Chan :
        /\ Len(SentOn(c)) >= 2
        /\ Loads(SentOn(c)[1].frame).type = "connect"
        /\ SentOn(c)[2].op \in CallOps

\* C10 (connect failure): a connect that fails because the endpoint is
\* unreachable raises, holds no channel afterwards when none was held before,
\* opens no channel, transmits nothing and leaves the counter as it was.
C10_ConnectFailure ==
    [][(ret'.op = "connect" /\ ret'.exc = "ConnectionRefusedError") =>
          /\ ret'.outcome = "raised"
          /\ ws' = ws
          /\ ws = None => ws' = None
          /\ nconn' = nconn
          /\ wire' = wire
          /\ message_id' = message_id]_vars

\* connect failed on a fresh client
C10_Witness ==
    /\ ret.op = "connect"
    /\ ret.exc = "ConnectionRefusedError"
    /\ ws = None
    /\ message_id = 0
    /\ wire = <<>>

\* the messages the current or last call of a request operation transmitted:
\* the counter has not moved since that call took its id
SentByCall ==
    {i \in DOMAIN wire : wire[i].op = ret.op /\ CounterOf(i) = message_id}

\* C11 as stated (no retry): every call of call_tool, create_pipeline or
\* test_pipeline transmits exactly one message, whatever its outcome.
C11_ExactlyOneMessage ==
    ret.op \in CallOps => Cardinality(SentByCall) = 1

\* C11 as amended: a call of call_tool, create_pipeline or test_pipeline
\* transmits one message when ws.send() succeeds and none when it raises;
\* once the call waits for its reply, and after it has ended, it transmits
\* nothing more and takes no further id.
C11_AtMostOneMessage ==
    /\ [](ret.op \in CallOps =>
            /\ Cardinality(SentByCall) <= 1
            /\ Cardinality(SentByCall) = 0 <=>
                    (ret.outcome = "raised" /\ ret.exc \in
                        {"AttributeError", "WebSocketConnectionClosedException"}
                     /\ awaited = NoId))
    /\ [][ret'.op \in CallOps =>
            /\ Len(wire') <= Len(wire) + 1
            /\ message_id' <= message_id + 1
            /\ pc = "recv" => wire' = wire /\ message_id' = message_id]_vars

\* a call timed out after it had transmitted its one message
C11_Witness ==
    /\ ret.op \in CallOps
    /\ ret.exc = "TimeoutError"
    /\ Cardinality(SentByCall) = 1

\* ---------------------------------------------------------------- C12
\* the operations of main's try block, in program order
MainOrder == <<"connect", "create_pipeline", "call_tool", "call_tool", "test_pipeline">>

\* C12: in main, whichever step fails or none, disconnect runs before main
\* is over, and main ends holding no channel with no channel left open; a
\* step that raises is followed by disconnect alone, so that no later step
\* sends anything, and what it raises is caught by `except Exception`.
C12_GuaranteedRelease ==
    /\ [](MainPc = "done" =>
            /\ ret = Returned("disconnect", NoValue)
            /\ ws = None
            /\ \A c \in Chan : status[c] \in {"unused", "closed"}
            /\ \A c \in Chan : status[c] = "closed" => closes[c] = 1)
    /\ [](ret.outcome = "raised" => ret.exc \in CaughtByExcept)
    /\ [](/\ Len(wire) <= Len(MainOrder)
          /\ \A i \in DOMAIN wire : wire[i].op = MainOrder[i])
    /\ [][(ret.outcome = "raised" /\ ret' # ret) =>
            /\ ret' = Returned("disconnect", NoValue)
            /\ wire' = wire
            /\ message_id' = message_id]_vars

\* main is over after create_pipeline failed: two messages were sent, the
\* channel was closed once
C12_Witness ==
    /\ MainPc = "done"
    /\ Len(wire) = 2
    /\ closes[1] = 1
    /\ ws = None

\* ---------------------------------------------------------------- C13
\* the call main is in, or has just left, is get_current_project: it is the
\* fourth operation of main that sends a message
InGetCurrentProject == Len(wire) = 4 /\ ret.op = "call_tool"

\* C13: get_current_project transmits one message, of type tool_call with
\* payload {tool: getCurrentProject, args: {}}, and awaits its id; when the
\* reply with that id has type tool_result and payload {result: R} the call
\* returns exactly R, whichever R the server chose, and it returns nothing
\* that did not come in such a reply.
C13_RoundTrip ==
    InGetCurrentProject =>
        /\ SentByCall = {4}
        /\ Loads(wire[4].frame).type = "tool_call"
        /\ Loads(wire[4].frame).payload = ToolPayload("getCurrentProject")
        /\ Loads(wire[4].frame).payload.args = <<>>
        /\ Loads(wire[4].frame).id = awaited
        /\ (/\ WaitOver
            /\ GotMatch
            /\ Data.type = "tool_result"
            /\ "result" \in DOMAIN Data.payload) =>
                ret = Returned("call_tool", Data.payload.result)
        /\ ret.outcome = "returned" =>
                /\ GotMatch
                /\ "result" \in DOMAIN Data.payload
                /\ ret.value = Data.payload.result

\* get_current_project returned the project the server sent
C13_Witness ==
    /\ InGetCurrentProject
    /\ GotMatch
    /\ Data.type = "tool_result"
    /\ ret = Returned("call_tool", ProjectResult)

\* ---------------------------------------------------------------- C14
\* the current or last wait is for an id whose reply was handed to an earlier
\* wait for another id, and the server has not sent a reply with it again
AwaitsLost == InWait /\ awaited \in lost

\* the part of C14 about replay: a wait for such an id has not returned a
\* message; the discarded reply is kept nowhere
C14_NeverReplayed ==
    AwaitsLost => ~(GotMatch /\ ret.outcome = "returned")

\* C14 (permanent loss): a wait for an id whose reply was discarded never
\* returns that reply, and, the server sending nothing with that id again on
\* a channel that stays open, it has ended in TimeoutError once the timeout
\* has elapsed.
C14_PermanentLoss ==
    /\ C14_NeverReplayed
    /\ (/\ AwaitsLost
        /\ CanSend(ws)
        /\ reply # <<>> => IsJson(reply[1].frame)
        /\ now - start_time > Timeout) =>
            /\ ret.outcome = "raised"
            /\ ret.exc = "TimeoutError"

\* ---------------------------------------------------------------- C15
\* the listed outcomes of a finished wait: a result, a remote error, a timeout
EndedAsListed ==
    WaitOver /\ (GotMatch \/ ret.exc = "TimeoutError")

\* C15: only connect and disconnect change the connection state.  A step
\* that changes self.ws, or closes a channel, is a step of connect or of
\* disconnect taken outside any wait; a wait leaves self.ws and every
\* channel as the client had them; and a call or wait that has ended with a
\* result, a remote error or TimeoutError leaves the client idle, holding
\* the channel it held, which the client has not closed.
C15_ConnectionFrame ==
    /\ [](EndedAsListed =>
            /\ pc = "idle"
            /\ ws # None
            /\ status[ws] # "closed"
            /\ closes[ws] = 0)
    /\ [][(\/ ws' # ws
           \/ closes' # closes
           \/ \E c \in Chan : (status'[c] = "closed") # (status[c] = "closed")) =>
                /\ pc = "idle" /\ pc' = "idle"
                /\ ret'.op \in {"connect", "disconnect"}]_vars
    /\ [][(pc = "recv" /\ pc' = "idle") =>
                /\ ws' = ws
                /\ closes' = closes
                /\ \A c \in Chan : status'[c] = "closed" <=> status[c] = "closed"
                /\ CanSend(ws) => CanSend(ws')]_vars

\* a call timed out and the client still holds its open channel
C15_Witness ==
    /\ ret.op \in CallOps
    /\ ret.exc = "TimeoutError"
    /\ CanSend(ws)
    /\ closes[ws] = 0

\* ---------------------------------------------------------------- C16
\* the frame ws.recv() is about to return
NextFrame == Head(inbox)
\* a step in which ws.recv() returns a frame to the wait
ReceivesFrame == pc = "recv" /\ inbox # <<>> /\ received' = received + 1

\* C16: a frame that is not JSON ends the wait at once with the decoding
\* failure, and a receive on a dropped connection with nothing left to read
\* ends it at once with the connection failure, before and after the
\* deadline alike; neither is discarded and neither becomes TimeoutError.  A
\* well-formed message without an id field is treated as a message with
\* another id: the wait goes on within the timeout and times out after it.
C16_OnlyTimeoutTolerated ==
    /\ []((InWait /\ reply # <<>> /\ ~reply[1].frame.json) =>
            /\ pc = "idle"
            /\ ret = Raised(ret.op, "JSONDecodeError", <<>>))
    /\ []((InWait /\ ret.exc = "JSONDecodeError") =>
            reply # <<>> /\ ~reply[1].frame.json)
    /\ []((InWait /\ ret.exc = "WebSocketConnectionClosedException") =>
            ws # None /\ status[ws] = "dropped" /\ inbox = <<>>)
    /\ [][(ReceivesFrame /\ ~NextFrame.json) =>
            /\ pc' = "idle"
            /\ ret' = Raised(ret.op, "JSONDecodeError", <<>>)]_vars
    /\ [][(/\ pc = "recv"
           /\ ws # None
           /\ status[ws] = "dropped"
           /\ inbox = <<>>
           /\ now' = now) =>
            /\ pc' = "idle"
            /\ ret' = Raised(ret.op, "WebSocketConnectionClosedException", <<>>)]_vars
    /\ [][(/\ ReceivesFrame
           /\ NextFrame.json
           /\ "id" \notin DOMAIN NextFrame.obj) =>
            IF now - start_time < Timeout
            THEN pc' = "recv" /\ ret' = ret
            ELSE pc' = "idle" /\ ret' = Raised(ret.op, "TimeoutError", <<>>)]_vars

\* a frame that is not JSON ended a wait that had already discarded a message
C16_Witness ==
    /\ InWait
    /\ received = 2
    /\ ~reply[1].frame.json
    /\ ret.exc = "JSONDecodeError"

\* ---------------------------------------------------------------- C17
\* C17: the deadline is tested only after a receive has returned a message
\* with another id.  A message with the awaited id ends the wait as a reply,
\* whether ws.recv() returned it before or after the deadline; TimeoutError
\* is raised only in a step in which ws.recv() returns a message with another
\* id at or after the deadline, never by the passing of time alone.
C17_DeadlineBetweenReceives ==
    /\ []((InWait /\ GotMatch) =>
            /\ pc = "idle"
            /\ ret = Finish(ret.op, Data)
            /\ ret.exc # "TimeoutError")
    /\ []((InWait /\ ret.exc = "TimeoutError") =>
            /\ reply # <<>>
            /\ reply[1].frame.json
            /\ Get(reply[1].frame.obj, "id") # awaited
            /\ reply[1].at - start_time >= Timeout)
    /\ [][(ret.exc # "TimeoutError" /\ ret'.exc = "TimeoutError") =>
            /\ ReceivesFrame
            /\ now' = now
            /\ now - start_time >= Timeout]_vars

\* a reply that ws.recv() returned after the deadline was handed to the caller
C17_Witness ==
    /\ InWait
    /\ GotMatch
    /\ reply[1].at - start_time >= Timeout
    /\ ret.outcome = "returned"

====
